---- MODULE Spec2Model ----
(***************************************************************************)
(* Model of extract.py: the batch download pipeline of BCB time series.    *)
(*                                                                         *)
(* Time is counted in half months: an even TimePoint is the first day of a *)
(* month, an odd one a day inside the month.  A series is a function from  *)
(* the TimePoints it has an observation at to the observed value.  A       *)
(* DataFrame returned by a fetch is a sequence of columns [label, obs];    *)
(* the consolidated DataFrame carries its row index explicitly.            *)
(***************************************************************************)
EXTENDS Integers, Sequences, FiniteSets, TLC

\* ------------------------------------------------------------ constants
START_DATE == 2
BATCH_SIZE == 10
MAX_WORKERS == 5
\* freq='MS': the distance between two month starts, in TimePoints
MS == 2
\* pandas' missing value (observed values are positive)
NaN == -1

\* --------------------------------------------------------------- bounds
\* today, as a TimePoint
Today == 6
\* Spec: inputs of 1..SmallN codes (one batch), each answering in every
\* possible way ...
SmallN == 3
\* ... and of BATCH_SIZE+1 .. BATCH_SIZE+Extra codes (two batches) ...
Extra == 2
\* ... whose last NVaried codes answer in every possible way
NVaried == 1
\* SpecPool: BATCH_SIZE*MAX_WORKERS + PoolExtra codes (MAX_WORKERS+1 batches)
PoolExtra == 1
\* SpecPart: input lists of 0..PartN distinct codes
PartN == 21

VARIABLES
    series_codes,   \* the argument of download_series_batch (a list)
    data,           \* remote: code -> set of TimePoints with an observation
    strictResp,     \* remote: code -> "ok" | "fail", sgs.get(code, start=..)
    fullResp,       \* remote: code -> "ok" | "fail", sgs.get(code)
    combFail,       \* remote: batches whose combined sgs.get(chunk, ..) raises
    logBroken,      \* batches whose failure log line (line 55) raises
    pc,             \* position of the main thread
    chunks,         \* the list of batches
    task,           \* batch -> [st, i, chunk_results], one future each
    collected,      \* batches whose future as_completed has yielded
    results,        \* the accumulator of download_series_batch
    df_final,       \* the consolidated DataFrame [index, cols]
    nComb,          \* batch -> combined fetches issued
    nStrict,        \* code -> strict fetches issued
    nFull,          \* code -> full-history fetches issued
    outcome,        \* code -> terminal branch of its individual resolution
    logNoData,      \* code -> "none within period" lines printed
    logPerm,        \* code -> "failed permanently" lines printed
    logCritical,    \* "CRITICAL WORKER ERROR" lines printed
    inputFile,      \* disk: INPUT_FILE is "ok" | "missing" | "unreadable"
    inputRows,      \* disk: the rows [Codigo, Coluna, Aba] of INPUT_FILE
    outputExists,   \* disk: OUTPUT_FILE exists when main starts
    backupResp,     \* disk: shutil.copy2 is "ok" | "ioerror" | "error"
    writeResp,      \* disk: the export is "ok" | "permission" | "error"
    df_input,       \* the cleaned configuration rows
    backup,         \* BACKUP_FILE was written
    output_dfs,     \* the per-sheet tables, in insertion order
    written,        \* the sheets saved to OUTPUT_FILE
    exit_code,      \* the local exit_code of main
    fatal           \* the critical error main printed, "none" if none

vars == <<series_codes, data, strictResp, fullResp, combFail, logBroken, pc,
          chunks, task, collected, results, df_final, nComb, nStrict, nFull,
          outcome, logNoData, logPerm, logCritical, inputFile, inputRows,
          outputExists, backupResp, writeResp, df_input, backup, output_dfs,
          written, exit_code, fatal>>

\* the files main reads and writes
disk == <<inputFile, inputRows, outputExists, backupResp, writeResp>>

\* the locals of main outside the download
mainState == <<df_input, backup, output_dfs, written, exit_code, fatal>>

remote == <<series_codes, data, strictResp, fullResp, combFail, logBroken>>

\* -------------------------------------------------------------- helpers
Range(s) == {s[i] : i \in DOMAIN s}

Min(a, b) == IF a < b THEN a ELSE b

\* the one-element set of e, with e evaluated once and in full: a value
\* drawn from it is computed once however often it is used
Forced(e) == {y \in {e} : y = y}

\* sorted(list(S)): the elements of a set in ascending order, the k-th
\* being the one with k elements at or below it
SortedSeq(S) ==
    [k \in 1..Cardinality(S) |->
        CHOOSE x \in S : Cardinality({y \in S : y <= x}) = k]

\* s[lo : hi] of Python, on 0-based positions, clamped to the list
Slice(s, lo, hi) ==
    [k \in 1..(Min(hi, Len(s)) - Min(lo, Len(s))) |-> s[lo + k]]

\* slices one code too long: consecutive chunks share a code
ChunksOverlapping(codes) ==
    LET total  == Len(codes)
        starts == SortedSeq({i \in 0..(total - 1) : i % BATCH_SIZE = 0})
    IN  [k \in 1..Len(starts) |-> Slice(codes, starts[k], starts[k] + BATCH_SIZE + 1)]

\* the chunks of line 99, from the sorted, deduplicated codes
ChunksOf(codes) ==
    LET total == Len(codes)
        Cut(starts) ==
            [k \in 1..Len(starts) |-> Slice(codes, starts[k], starts[k] + BATCH_SIZE)]
    IN  (CHOOSE r \in {Cut(v) : v \in Forced(SortedSeq({i \in 0..(total - 1) : i % BATCH_SIZE = 0}))} : TRUE)

\* the chunks cut from the list as given: neither deduplicated nor sorted
PartitionAsGiven(codes) == ChunksOf(codes)

\* lines 93-99
Partition(codes) == (CHOOSE r \in {ChunksOf(v) : v \in Forced(SortedSeq(Range(codes)))} : TRUE)

RECURSIVE Flatten(_)
Flatten(ss) == IF ss = <<>> THEN <<>> ELSE Head(ss) \o Flatten(Tail(ss))

\* ------------------------------------------------------- the time axis
\* pd.date_range(start=START_DATE, end=today, freq='MS')
master_index ==
    IF Today < START_DATE THEN <<>>
    ELSE [k \in 1..((Today - START_DATE) \div MS + 1) |-> START_DATE + MS * (k - 1)]

\* ------------------------------------------------------------ the remote
\* the value the remote source holds for series c at TimePoint t
Val(c, t) == c * 100 + t

RemoteSeries(c) == [t \in data[c] |-> Val(c, t)]

\* the observations of a series on or after a date
Window(s, start) == [t \in {u \in DOMAIN s : u >= start} |-> s[t]]

\* the decimal digits of a positive code: the column label sgs.get gives
RECURSIVE Digits(_)
Digits(n) == IF n < 10 THEN <<n>> ELSE Digits(n \div 10) \o <<n % 10>>

\* pd.to_numeric of a label of digits
RECURSIVE ToNumeric(_)
ToNumeric(ds) ==
    IF ds = <<>> THEN 0
    ELSE 10 * ToNumeric(SubSeq(ds, 1, Len(ds) - 1)) + ds[Len(ds)]

Column(c, s) == [label |-> Digits(c), obs |-> s]

\* sgs.get(chunk, start=start_date) when it succeeds: one column per code
CombinedFrame(chunk) ==
    [k \in 1..Len(chunk) |-> Column(chunk[k], Window(RemoteSeries(chunk[k]), START_DATE))]

\* sgs.get(code, start=start_date) when it succeeds
StrictFrame(c) == <<Column(c, Window(RemoteSeries(c), START_DATE))>>

\* sgs.get(code) when it succeeds: no start bound
FullFrame(c) == <<Column(c, RemoteSeries(c))>>

\* DataFrame.empty of a frame returned by a fetch of one code
FrameEmpty(f) == \A k \in DOMAIN f : DOMAIN f[k].obs = {}

\* ts[ts.index >= start_date]
FilterFrame(f, start) ==
    [k \in DOMAIN f |-> [label |-> f[k].label, obs |-> Window(f[k].obs, start)]]

\* ------------------------------------------------------- consolidation
\* pd.DataFrame()
EmptyDataFrame == [index |-> <<>>, cols |-> <<>>]

\* DataFrame.empty: no rows or no columns
DfEmpty(df) == Len(df.index) = 0 \/ Len(df.cols) = 0

\* pd.concat(results, axis=1) and the relabelling of line 118: the row index
\* is the union of the indexes, a column misses what its series did not hold
Concat(rs) ==
    LET Index(cs) == SortedSeq(UNION {DOMAIN cs[k].obs : k \in DOMAIN cs})
        Frame(cs, idx) ==
            [index |-> idx,
             cols  |-> [k \in DOMAIN cs |->
                          [label |-> ToNumeric(cs[k].label),
                           vals  |-> [j \in DOMAIN idx |->
                                        IF idx[j] \in DOMAIN cs[k].obs
                                        THEN cs[k].obs[idx[j]] ELSE NaN]]]]
        OfColumns(cs) == (CHOOSE r \in {Frame(cs, idx) : idx \in Forced(Index(cs))} : TRUE)
    IN  (CHOOSE r \in {OfColumns(v) : v \in Forced(Flatten(rs))} : TRUE)

\* lines 114-122
Consolidated(rs) == IF rs # <<>> THEN Concat(rs) ELSE EmptyDataFrame

\* the value of a column at a TimePoint of the frame's index, NaN elsewhere
At(df, col, t) ==
    IF \E j \in DOMAIN df.index : df.index[j] = t
    THEN col.vals[CHOOSE j \in DOMAIN df.index : df.index[j] = t]
    ELSE NaN

\* df.reindex(axis)
Reindex(df, axis) ==
    [index |-> axis,
     cols  |-> [k \in DOMAIN df.cols |->
                  [label |-> df.cols[k].label,
                   vals  |-> [j \in DOMAIN axis |-> At(df, df.cols[k], axis[j])]]]]

\* main, lines 186-187
ReindexedGlobal(df) == IF ~DfEmpty(df) THEN Reindex(df, master_index) ELSE df

\* ------------------------------------------------------------ the tasks
Active == {"combined", "strict", "full"}

Running == {b \in DOMAIN task : task[b].st \in Active}

\* one thread per task, whatever the number of tasks
PoolUnbounded == TRUE

\* ThreadPoolExecutor(max_workers=MAX_WORKERS): a worker thread is free
\* a worker that ran a task takes no other one
PoolWorkersNotReused ==
    Cardinality({b \in DOMAIN task : task[b].st # "queued"}) < MAX_WORKERS

PoolHasIdleWorker == Cardinality(Running) < MAX_WORKERS

QueuedTask == [st |-> "queued", i |-> 0, chunk_results |-> <<>>]

\* the for loop of line 57 moves to the next code, or the task returns
NextCode(t, b) ==
    IF t.i < Len(chunks[b])
    THEN [t EXCEPT !.st = "strict", !.i = t.i + 1]
    ELSE [t EXCEPT !.st = "returned"]

\* what a step of a task leaves: its record, the outcome it settles for the
\* code at hand ("none": not settled) and the line it prints about that code
Step(t, out, line) == [t |-> t, out |-> out, log |-> line]

\* the combined result is kept and the per-series loop runs all the same
CombinedFallsThrough(t, b) ==
    Step([t EXCEPT !.st = "strict", !.i = 1,
                   !.chunk_results = Append(@, CombinedFrame(chunks[b]))],
         "none", "none")

\* lines 51-52: the combined fetch returned
CombinedSucceeded(t, b) ==
    Step([t EXCEPT !.st = "returned",
                   !.chunk_results = Append(@, CombinedFrame(chunks[b]))],
         "none", "none")

\* lines 54-57: the combined fetch raised
CombinedFailed(t, b) ==
    IF b \in logBroken
    THEN Step([t EXCEPT !.st = "raised"], "none", "none")
    ELSE Step([t EXCEPT !.st = "strict", !.i = 1], "none", "none")

\* the series is kept and the full history is fetched all the same
StrictSucceededThenFull(t, b) ==
    Step([t EXCEPT !.st = "full",
                   !.chunk_results = Append(@, StrictFrame(chunks[b][t.i]))],
         "succeeded", "none")

\* lines 60-62: the strict fetch returned
StrictSucceeded(t, b) ==
    Step(NextCode([t EXCEPT !.chunk_results = Append(@, StrictFrame(chunks[b][t.i]))], b),
         "succeeded", "none")

\* lines 63-67: the strict fetch raised
StrictFailed(t, b) == Step([t EXCEPT !.st = "full"], "none", "none")

\* a full history without observations counted as a permanent failure
FullEmptyIsFailure(t, b) ==
    LET ts == FullFrame(chunks[b][t.i])
        fl == FilterFrame(ts, START_DATE)
    IN  IF ~FrameEmpty(ts)
        THEN IF ~FrameEmpty(fl)
             THEN Step(NextCode([t EXCEPT !.chunk_results = Append(@, fl)], b),
                       "succeeded", "none")
             ELSE Step(NextCode(t, b), "no_data", "nodata")
        ELSE Step(NextCode(t, b), "failed", "perm")

\* lines 67-74: the full-history fetch returned
FullSucceeded(t, b) ==
    LET ts == FullFrame(chunks[b][t.i])
        fl == FilterFrame(ts, START_DATE)
    IN  IF ~FrameEmpty(ts)
        THEN IF ~FrameEmpty(fl)
             THEN Step(NextCode([t EXCEPT !.chunk_results = Append(@, fl)], b),
                       "succeeded", "none")
             ELSE Step(NextCode(t, b), "no_data", "nodata")
        ELSE Step(NextCode(t, b), "no_data", "none")

\* the permanent failure of one code ends the loop over the chunk
FullFailedBreaks(t, b) == Step([t EXCEPT !.st = "returned"], "failed", "perm")

\* the second failure is not caught and leaves the task
FullFailedRaises(t, b) == Step([t EXCEPT !.st = "raised"], "none", "none")

\* lines 75-76: the full-history fetch raised
FullFailed(t, b) == Step(NextCode(t, b), "failed", "perm")

\* the fetch a task is blocked in after a step
IssueStrict(b, t) ==
    IF t.st = "strict" THEN [nStrict EXCEPT ![chunks[b][t.i]] = @ + 1] ELSE nStrict

IssueFull(b, t) ==
    IF t.st = "full" THEN [nFull EXCEPT ![chunks[b][t.i]] = @ + 1] ELSE nFull

\* a step of task b that settles (or not) the code c
TaskStep(b, c, s) ==
    /\ task' = [task EXCEPT ![b] = s.t]
    /\ nStrict' = IssueStrict(b, s.t)
    /\ nFull' = IssueFull(b, s.t)
    /\ outcome' = IF s.out = "none" THEN outcome ELSE [outcome EXCEPT ![c] = s.out]
    /\ logNoData' = IF s.log = "nodata" THEN [logNoData EXCEPT ![c] = @ + 1] ELSE logNoData
    /\ logPerm' = IF s.log = "perm" THEN [logPerm EXCEPT ![c] = @ + 1] ELSE logPerm
    /\ UNCHANGED <<remote, disk, mainState, pc, chunks, collected, results, df_final, nComb, logCritical>>

\* ------------------------------------------------- text and column letters
\* a text is a sequence of characters: Space, the capitals 1..Alphabet, the
\* small letters Alphabet+1..2*Alphabet, and any other character above
Space == 0
Alphabet == 26

\* the longest column name openpyxl knows ('ZZZ')
MaxColumnLetters == 3

\* a missing cell of the configuration file
NA == <<NaN>>

\* str.strip()
RECURSIVE Strip(_)
Strip(s) ==
    IF s = <<>> THEN s
    ELSE IF Head(s) = Space THEN Strip(Tail(s))
    ELSE IF s[Len(s)] = Space THEN Strip(SubSeq(s, 1, Len(s) - 1))
    ELSE s

\* str.upper()
Upper(s) ==
    [i \in DOMAIN s |->
        IF s[i] > Alphabet /\ s[i] <= 2 * Alphabet THEN s[i] - Alphabet ELSE s[i]]

\* astype(str): a missing cell becomes the text 'nan'
AsStr(cell) ==
    IF cell = NA THEN <<Alphabet + 14, Alphabet + 1, Alphabet + 14>> ELSE cell

\* column_index_from_string does not raise: one to three letters
ValidColumn(s) ==
    /\ Len(s) >= 1
    /\ Len(s) <= MaxColumnLetters
    /\ \A i \in DOMAIN s : Upper(s)[i] >= 1 /\ Upper(s)[i] <= Alphabet

\* openpyxl column_index_from_string of a valid name
RECURSIVE column_index_from_string(_)
column_index_from_string(s) ==
    IF s = <<>> THEN 0
    ELSE Alphabet * column_index_from_string(SubSeq(s, 1, Len(s) - 1))
         + Upper(s)[Len(s)]

\* openpyxl get_column_letter
RECURSIVE get_column_letter(_)
get_column_letter(i) ==
    IF i = 0 THEN <<>>
    ELSE get_column_letter((i - 1) \div Alphabet) \o <<((i - 1) % Alphabet) + 1>>

\* lines 22-36: the letters from 'B' up to max_col_str
generate_column_range(max_col_str) ==
    IF ValidColumn(max_col_str)
    THEN LET max_idx == column_index_from_string(max_col_str)
         IN  [k \in 1..(max_idx - 1) |-> get_column_letter(k + 1)]
    ELSE <<>>

\* ------------------------------------------------------ the configuration
\* Series.unique(): the values in order of first appearance
Unique(s) ==
    LET Kept(firsts) ==
            [k \in 1..Cardinality(firsts) |->
                s[CHOOSE i \in firsts : Cardinality({j \in firsts : j <= i}) = k]]
    IN  (CHOOSE r \in {Kept(v) : v \in Forced({i \in DOMAIN s : \A j \in 1..(i - 1) : s[j] # s[i]})} : TRUE)

\* line 158
DropNa(rows) ==
    LET Kept(r) == r.Codigo.kind # "nan" /\ r.Aba # NA
    IN  SelectSeq(rows, Kept)

\* line 163: to_numeric(errors='coerce'), fillna(0), astype(int)
Codigo_Clean(cell) == IF cell.kind = "num" THEN cell.v ELSE 0

\* lines 159-163 on one row
CleanRow(r) ==
    [Codigo_Clean |-> Codigo_Clean(r.Codigo),
     Coluna       |-> Upper(Strip(AsStr(r.Coluna))),
     Aba          |-> Strip(AsStr(r.Aba))]

\* rows with a code that is no positive number are kept
CleanInputKeepsInvalid(rows) ==
    LET kept == DropNa(rows)
    IN  [k \in DOMAIN kept |-> CleanRow(kept[k])]

\* lines 158-164
CleanInput(rows) ==
    LET kept == DropNa(rows)
        Positive(r) == r.Codigo_Clean > 0
    IN  SelectSeq([k \in DOMAIN kept |-> CleanRow(kept[k])], Positive)

\* line 176
unique_codes(cfg) == Unique([k \in DOMAIN cfg |-> cfg[k].Codigo_Clean])

\* line 191
unique_sheets(cfg) == Unique([k \in DOMAIN cfg |-> cfg[k].Aba])

\* ------------------------------------------------------- the distribution
\* lines 196-197
df_config(cfg, sheet) ==
    LET OfSheet(r) == r.Aba = sheet
    IN  SelectSeq(cfg, OfSheet)

\* a sheet is dropped as well when one of its codes has no series
SheetSkippedWhenCodeAbsent(rows) ==
    \/ \E k \in DOMAIN rows : ~ValidColumn(rows[k].Coluna)
    \/ \E k \in DOMAIN rows :
          \A j \in DOMAIN df_final.cols : df_final.cols[j].label # rows[k].Codigo_Clean

\* lines 200-205: the column structure of a sheet cannot be computed
SheetSkipped(rows) == \E k \in DOMAIN rows : ~ValidColumn(rows[k].Coluna)

\* the letters from the first data column on
target_cols_from_B(rows) ==
    LET UpTo(max_col_str) == generate_column_range(max_col_str)
        Highest(col_indices) ==
            get_column_letter(CHOOSE m \in col_indices : \A i \in col_indices : i <= m)
        Letters(col_indices) == (CHOOSE r \in {UpTo(v) : v \in Forced(Highest(col_indices))} : TRUE)
    IN  (CHOOSE r \in {Letters(v) : v \in Forced({column_index_from_string(rows[k].Coluna) : k \in DOMAIN rows})} : TRUE)

\* the letters from the lowest configured column on
target_cols_from_lowest(rows) ==
    LET Letters(col_indices) ==
            LET max_idx == CHOOSE m \in col_indices : \A i \in col_indices : i <= m
                min_idx == CHOOSE m \in col_indices : \A i \in col_indices : m <= i
            IN  [k \in 1..(max_idx - min_idx + 1) |-> get_column_letter(min_idx + k - 1)]
    IN  (CHOOSE r \in {Letters(v) : v \in Forced({column_index_from_string(rows[k].Coluna) : k \in DOMAIN rows})} : TRUE)

\* lines 201-203
target_cols(rows) == target_cols_from_B(rows)

\* line 208
NewSheet(cols) ==
    [index |-> master_index,
     cols  |-> [k \in DOMAIN cols |->
                  [label |-> cols[k], vals |-> [j \in DOMAIN master_index |-> NaN]]]]

\* cod_orig in df_global_data.columns
InColumns(df, c) == \E k \in DOMAIN df.cols : df.cols[k].label = c

\* df_global_data[cod_orig], aligned on the index of the sheet
Aligned(df, c) ==
    LET col == df.cols[CHOOSE k \in DOMAIN df.cols : df.cols[k].label = c]
    IN  [j \in DOMAIN master_index |-> At(df, col, master_index[j])]

\* df_sheet[col_dest] = series: an existing column is replaced, a new label
\* is appended
SetColumn(sh, col_dest, series) ==
    IF \E k \in DOMAIN sh.cols : sh.cols[k].label = col_dest
    THEN [sh EXCEPT !.cols = [k \in DOMAIN sh.cols |->
                                IF sh.cols[k].label = col_dest
                                THEN [label |-> col_dest, vals |-> series]
                                ELSE sh.cols[k]]]
    ELSE [sh EXCEPT !.cols = Append(sh.cols, [label |-> col_dest, vals |-> series])]

\* lines 211-217, the first n rows done
RECURSIVE MapRowsUpTo(_, _, _, _)
MapRowsUpTo(sh, rows, df, n) ==
    IF n = 0 THEN sh
    ELSE LET row == rows[n]
             Mapped(done) ==
                 IF InColumns(df, row.Codigo_Clean)
                 THEN SetColumn(done, row.Coluna, Aligned(df, row.Codigo_Clean))
                 ELSE done
         IN  (CHOOSE r \in {Mapped(v) : v \in Forced(MapRowsUpTo(sh, rows, df, n - 1))} : TRUE)

\* lines 211-217
MapRows(sh, rows, df) == MapRowsUpTo(sh, rows, df, Len(rows))

\* lines 195-219
RECURSIVE Distribution(_, _, _)
Distribution(sheets, cfg, df) ==
    IF sheets = <<>> THEN <<>>
    ELSE LET Table(rows) ==
                 IF SheetSkipped(rows) THEN <<>>
                 ELSE <<[sheet |-> Head(sheets),
                         df    |-> MapRows((CHOOSE r \in {NewSheet(v) : v \in Forced(target_cols(rows))} : TRUE), rows, df)]>>
         IN  (CHOOSE r \in {Table(v) : v \in Forced(df_config(cfg, Head(sheets)))} : TRUE) \o Distribution(Tail(sheets), cfg, df)

\* ------------------------------------------------------------- actions
\* lines 93-99
PartitionStep ==
    /\ pc = "start"
    /\ chunks' = Partition(series_codes)
    /\ pc' = "partitioned"
    /\ UNCHANGED <<remote, disk, mainState, task, collected, results, df_final, nComb, nStrict,
                   nFull, outcome, logNoData, logPerm, logCritical>>

\* lines 101-103: one future per chunk, queued in order
SubmitAll ==
    /\ pc = "partitioned"
    /\ task' = [b \in DOMAIN chunks |-> QueuedTask]
    /\ nComb' = [b \in DOMAIN chunks |-> 0]
    /\ pc' = "collect"
    /\ UNCHANGED <<remote, disk, mainState, chunks, collected, results, df_final, nStrict, nFull,
                   outcome, logNoData, logPerm, logCritical>>

\* a pool worker takes the oldest queued task: lines 46-51, up to the
\* combined fetch
WorkerStart(b) ==
    /\ pc = "collect"
    /\ task[b].st = "queued"
    /\ \A a \in DOMAIN task : a < b => task[a].st # "queued"
    /\ PoolHasIdleWorker
    /\ task' = [task EXCEPT ![b].st = "combined"]
    /\ nComb' = [nComb EXCEPT ![b] = @ + 1]
    /\ UNCHANGED <<remote, disk, mainState, pc, chunks, collected, results, df_final, nStrict,
                   nFull, outcome, logNoData, logPerm, logCritical>>

CombinedReturn(b) ==
    /\ task[b].st = "combined"
    /\ TaskStep(b, chunks[b][1],
                IF b \in combFail THEN CombinedFailed(task[b], b)
                                  ELSE CombinedSucceeded(task[b], b))

StrictReturn(b) ==
    /\ task[b].st = "strict"
    /\ TaskStep(b, chunks[b][task[b].i],
                IF strictResp[chunks[b][task[b].i]] = "ok"
                THEN StrictSucceeded(task[b], b) ELSE StrictFailed(task[b], b))

FullReturn(b) ==
    /\ task[b].st = "full"
    /\ TaskStep(b, chunks[b][task[b].i],
                IF fullResp[chunks[b][task[b].i]] = "ok"
                THEN FullSucceeded(task[b], b) ELSE FullFailed(task[b], b))

\* the accumulator assigned instead of extended
Overwrite(rs, chunk_data) == chunk_data

\* line 109
Extend(rs, chunk_data) == rs \o chunk_data

\* the task's exception leaves the collection loop
FutureRaisedPropagates == [pc |-> "aborted", critical |-> 0]

\* lines 110-111: future.result() raised; the loop goes on
FutureRaised == [pc |-> "collect", critical |-> 1]

\* lines 106-111: as_completed yields a finished future
Collect(b) ==
    /\ pc = "collect"
    /\ b \notin collected
    /\ task[b].st \in {"returned", "raised"}
    /\ collected' = collected \cup {b}
    /\ IF task[b].st = "returned"
       THEN /\ results' = Extend(results, task[b].chunk_results)
            /\ UNCHANGED <<pc, logCritical>>
       ELSE /\ pc' = FutureRaised.pc
            /\ logCritical' = logCritical + FutureRaised.critical
            /\ UNCHANGED results
    /\ UNCHANGED <<remote, disk, mainState, chunks, task, df_final, nComb, nStrict, nFull,
                   outcome, logNoData, logPerm>>

\* the merge starts as soon as one future was yielded
SomeCollected == collected # {}

\* the as_completed loop and the with block of lines 101-111 are over
AllCollected == collected = DOMAIN task

\* lines 113-122, once every future was yielded
Consolidate ==
    /\ pc = "collect"
    /\ AllCollected
    /\ df_final' = Consolidated(results)
    /\ pc' = "consolidated"
    /\ UNCHANGED <<remote, disk, mainState, chunks, task, collected, results, nComb, nStrict,
                   nFull, outcome, logNoData, logPerm, logCritical>>

\* main, lines 183-187
ReindexStep ==
    /\ pc = "consolidated"
    /\ df_final' = ReindexedGlobal(df_final)
    /\ pc' = "reindexed"
    /\ UNCHANGED <<remote, disk, mainState, chunks, task, collected, results, nComb, nStrict,
                   nFull, outcome, logNoData, logPerm, logCritical>>

Next ==
    \/ PartitionStep
    \/ SubmitAll
    \/ \E b \in DOMAIN task : WorkerStart(b)
    \/ \E b \in DOMAIN task : CombinedReturn(b)
    \/ \E b \in DOMAIN task : StrictReturn(b)
    \/ \E b \in DOMAIN task : FullReturn(b)
    \/ \E b \in DOMAIN task : Collect(b)
    \/ Consolidate
    \/ ReindexStep

\* the state of download_series_batch and its tasks
download == <<chunks, task, collected, results, df_final, nComb, nStrict,
              nFull, outcome, logNoData, logPerm, logCritical>>

\* the answers of the remote source
answers == <<data, strictResp, fullResp, combFail, logBroken>>

\* main, lines 131-144: the safety copy of an existing output file
BackupStep ==
    /\ pc = "main"
    /\ backup' = (outputExists /\ backupResp = "ok")
    /\ pc' = "read"
    /\ UNCHANGED <<remote, disk, download, df_input, output_dfs, written,
                   exit_code, fatal>>

\* the message is printed and exit_code keeps its value
CriticalKeepsCode(message) ==
    /\ fatal' = message
    /\ pc' = "finally"
    /\ UNCHANGED exit_code

\* a critical error of main: the message, exit_code = 1, on to the finally
Critical(message) ==
    /\ fatal' = message
    /\ exit_code' = 1
    /\ pc' = "finally"

\* main, lines 146-181: the configuration is read and cleaned
ReadConfig ==
    /\ pc = "read"
    /\ IF inputFile = "missing"
       THEN Critical("input file not found") /\ UNCHANGED <<df_input, series_codes>>
       ELSE IF inputFile = "unreadable"
       THEN Critical("error reading input file") /\ UNCHANGED <<df_input, series_codes>>
       ELSE \E cfg \in {CleanInput(inputRows)} : \E codes \in {unique_codes(cfg)} :
            /\ df_input' = cfg
            /\ IF codes = <<>>
               THEN Critical("no valid series codes") /\ UNCHANGED series_codes
               ELSE /\ series_codes' = codes
                    /\ pc' = "start"
                    /\ UNCHANGED <<exit_code, fatal>>
    /\ UNCHANGED <<answers, disk, download, backup, output_dfs, written>>

\* main, lines 190-219
DistributeStep ==
    /\ pc = "reindexed"
    /\ \E sheets \in {unique_sheets(df_input)} :
         output_dfs' = Distribution(sheets, df_input, df_final)
    /\ pc' = "distributed"
    /\ UNCHANGED <<remote, disk, download, df_input, backup, written,
                   exit_code, fatal>>

\* the sheets of the first n tables
SheetNames(dfs, n) == [k \in 1..n |-> dfs[k].sheet]

\* nothing is exported either when no series was downloaded
NoOutputOrNoData(dfs) == dfs = <<>> \/ df_final.cols = <<>>

\* line 222: `if output_dfs` fails
NoOutput(dfs) == dfs = <<>>

\* main, lines 222-237
ExportStep ==
    /\ pc = "distributed"
    /\ IF NoOutput(output_dfs)
       THEN Critical("no data generated") /\ UNCHANGED written
       ELSE IF writeResp = "permission"
       THEN Critical("permission denied") /\ UNCHANGED written
       ELSE IF writeResp = "error"
       THEN /\ Critical("error saving")
            /\ \E n \in 0..(Len(output_dfs) - 1) : written' = SheetNames(output_dfs, n)
       ELSE /\ written' = SheetNames(output_dfs, Len(output_dfs))
            /\ pc' = "finally"
            /\ UNCHANGED <<exit_code, fatal>>
    /\ UNCHANGED <<remote, disk, download, df_input, backup, output_dfs>>

\* main, lines 243-249: sys.exit(exit_code)
ExitStep ==
    /\ pc = "finally"
    /\ pc' = "exited"
    /\ UNCHANGED <<remote, disk, download, mainState>>

\* the whole program
NextMain ==
    \/ BackupStep
    \/ ReadConfig
    \/ Next
    \/ DistributeStep
    \/ ExportStep
    \/ ExitStep

\* ------------------------------------------------------- initial states
\* the observation dates a varied series may hold: none, only before the
\* start date, or before it, on it and inside its month
Shapes == {{}, {START_DATE - MS}, {START_DATE - MS, START_DATE, START_DATE + 1}}

\* the observation dates of every other series
DefaultShape == {START_DATE, START_DATE + MS}

Resp == {"ok", "fail"}

\* codes n, n-1, .., 1: distinct, in the order of the configuration rows
Descending(n) == [k \in 1..n |-> n + 1 - k]

LastCodes(n, k) == {c \in 1..n : c > n - k}

\* the codes of an input of n codes that answer in every way
Varied(n) == IF n <= SmallN THEN 1..n ELSE LastCodes(n, NVaried)

\* the ways a code may answer: its strict fetch, its full-history fetch and
\* the dates it has observations at.  The full-history fetch of a code is
\* issued only after its strict fetch failed, so its answer is varied only
\* then
ProfilesOver(shapes) ==
    {p \in [strict : Resp, full : Resp, shape : shapes] :
        p.strict = "ok" => p.full = "ok"}

Profiles == ProfilesOver(Shapes)

DefaultProfile == [strict |-> "ok", full |-> "ok", shape |-> DefaultShape]

\* the remote source and the download not yet begun: of the codes, those of
\* V answer in every way of P, with combined failures cf and broken
\* failure logs lb
Entry(codes, V, P, cf, lb) ==
    /\ \E pf \in [V -> P] :
         LET prof(c) == IF c \in V THEN pf[c] ELSE DefaultProfile
         IN  /\ strictResp = [c \in Range(codes) |-> prof(c).strict]
             /\ fullResp = [c \in Range(codes) |-> prof(c).full]
             /\ data = [c \in Range(codes) |-> prof(c).shape]
    /\ combFail = cf
    /\ logBroken = lb
    /\ chunks = <<>>
    /\ task = <<>>
    /\ collected = {}
    /\ results = <<>>
    /\ df_final = EmptyDataFrame
    /\ nComb = <<>>
    /\ nStrict = [c \in Range(codes) |-> 0]
    /\ nFull = [c \in Range(codes) |-> 0]
    /\ outcome = [c \in Range(codes) |-> "none"]
    /\ logNoData = [c \in Range(codes) |-> 0]
    /\ logPerm = [c \in Range(codes) |-> 0]
    /\ logCritical = 0

\* main at line 131, before any file was touched
MainLocals ==
    /\ df_input = <<>>
    /\ backup = FALSE
    /\ output_dfs = <<>>
    /\ written = <<>>
    /\ exit_code = 0
    /\ fatal = "none"

\* download_series_batch called on the list codes
Setup(codes, V, P, cf, lb) ==
    /\ series_codes = codes
    /\ pc = "start"
    /\ Entry(codes, V, P, cf, lb)
    /\ inputFile = "ok"
    /\ inputRows = <<>>
    /\ outputExists = FALSE
    /\ backupResp = "ok"
    /\ writeResp = "ok"
    /\ MainLocals

SpecSizes == (1..SmallN) \cup ((BATCH_SIZE + 1)..(BATCH_SIZE + Extra))

Batches(codes) == DOMAIN Partition(codes)

\* every answer of the remote source; the log never breaks
Init ==
    \E n \in SpecSizes : \E cf \in SUBSET Batches(Descending(n)) :
        Setup(Descending(n), Varied(n), Profiles, cf, {})

Spec == Init /\ [][Next]_vars

\* every answer of the remote source, and failure logs that break
InitFault ==
    \E n \in SpecSizes : \E cf \in SUBSET Batches(Descending(n)) :
        \E lb \in SUBSET cf :
            Setup(Descending(n), LastCodes(n, 1), Profiles, cf, lb)

SpecFault == InitFault /\ [][Next]_vars

\* more batches than workers; the last code answers in every way and only
\* the last batch may fail as a whole
PoolSizes == (BATCH_SIZE * MAX_WORKERS + 1)..(BATCH_SIZE * MAX_WORKERS + PoolExtra)

InitPool ==
    \E n \in PoolSizes :
        \E cf \in {{}, {Cardinality(Batches(Descending(n)))}} :
            Setup(Descending(n), LastCodes(n, 1), ProfilesOver({DefaultShape}), cf, {})

SpecPool == InitPool /\ [][Next]_vars

\* ---------------------------------------------- initial states of main
\* column names and sheet names of the configurations
ColA == <<1>>
ColB == <<2>>
ColD == <<4>>
ColPaddedSmallB == <<Space, Alphabet + 2, Space>>
ColBad == <<2 * Alphabet + 1>>
SheetS == <<19>>
SheetT == <<20>>
SheetPaddedS == <<Space, 19, Space>>

Row(codigo, coluna, aba) == [Codigo |-> codigo, Coluna |-> coluna, Aba |-> aba]

Num(v) == [kind |-> "num", v |-> v]

\* the process started on a disk holding the file state, its rows, an old
\* output or none, and the answers br and wr to the copy and the export
MainSetup(file, rows, oe, br, wr, V, P, cf) ==
    /\ pc = "main"
    /\ series_codes = <<>>
    /\ inputFile = file
    /\ inputRows = rows
    /\ outputExists = oe
    /\ backupResp = br
    /\ writeResp = wr
    /\ MainLocals
    /\ Entry(unique_codes(CleanInput(rows)), V, P, cf, {})

\* the codes a configuration leads to fetch
CodesOf(rows) == unique_codes(CleanInput(rows))

\* the largest code of a configuration
LastCode(rows) == {c \in Range(CodesOf(rows)) : \A d \in Range(CodesOf(rows)) : d <= c}

\* configurations of the distribution: up to MaxRows rows of two codes on
\* the columns A, B, D or an invalid one, on two sheets
MaxRows == 2

DistRows ==
    {Row(Num(c), col, sh) : c \in 1..2, col \in {ColA, ColB, ColD, ColBad},
                            sh \in {SheetS, SheetT}}

DistConfigs ==
    {rows \in UNION {[1..n -> DistRows] : n \in 1..MaxRows} : rows[1].Aba = SheetS}

\* a series that holds nothing, and one that cannot be fetched alone
DistProfiles ==
    {DefaultProfile,
     [strict |-> "ok", full |-> "ok", shape |-> {}],
     [strict |-> "fail", full |-> "fail", shape |-> DefaultShape]}

InitDist ==
    \E rows \in DistConfigs : \E cf \in {{}, Batches(CodesOf(rows))} :
        MainSetup("ok", rows, FALSE, "ok", "ok", LastCode(rows), DistProfiles, cf)

\* configurations of the fetch: ten codes a sheet, on its data columns in
\* order
FetchConfig(n) ==
    [k \in 1..n |->
        Row(Num(k), get_column_letter(((k - 1) % BATCH_SIZE) + 2),
            <<SheetS[1] + ((k - 1) \div BATCH_SIZE)>>)]

FetchSizes == {2, BATCH_SIZE + 1}

WriteResps == {"ok", "permission", "error"}

InitFetch ==
    \E n \in FetchSizes : \E cf \in SUBSET Batches(CodesOf(FetchConfig(n))) :
        \E wr \in WriteResps :
            MainSetup("ok", FetchConfig(n), FALSE, "ok", wr,
                      IF n < BATCH_SIZE THEN 1..n ELSE {n}, Profiles, cf)

\* configurations of the setup: no row, or one row of any kind
SetupRows ==
    {Row(cod, col, sh) :
        cod \in {Num(1), Num(0), Num(-1), [kind |-> "text", v |-> 0],
                 [kind |-> "nan", v |-> 0]},
        col \in {ColB, ColPaddedSmallB, ColBad},
        sh  \in {SheetS, SheetPaddedS, NA}}

SetupConfigs == {<<>>} \cup {<<r>> : r \in SetupRows}

InitSetup ==
    \E file \in {"ok", "missing", "unreadable"} : \E rows \in SetupConfigs :
        \E oe \in BOOLEAN : \E br \in {"ok", "ioerror", "error"} :
            \E wr \in WriteResps :
                MainSetup(file, rows, oe, br, wr, {}, Profiles, {})

InitMain == InitDist \/ InitFetch \/ InitSetup

SpecMain == InitMain /\ [][NextMain]_vars

\* ------------------------------------------------------------- fairness
\* the steps of the thread that runs main
MainThread ==
    \/ BackupStep
    \/ ReadConfig
    \/ PartitionStep
    \/ SubmitAll
    \/ \E b \in DOMAIN task : Collect(b)
    \/ Consolidate
    \/ ReindexStep
    \/ DistributeStep
    \/ ExportStep
    \/ ExitStep

\* the steps of the task of batch b: a worker takes it, its fetches return
TaskRun(b) ==
    /\ b \in DOMAIN task
    /\ \/ WorkerStart(b)
       \/ CombinedReturn(b)
       \/ StrictReturn(b)
       \/ FullReturn(b)

\* one batch, and one batch more than the pool has workers
LiveSizes == {1, BATCH_SIZE * MAX_WORKERS + 1}

LiveBatches == 1..(MAX_WORKERS + 1)

\* a run of one batch: the configuration file may be missing, the batch may
\* fail as a whole and its code then answers in every way; a run of more
\* batches than workers: the last batch fails as a whole and its code is
\* recovered by the full-history fetch
InitLive ==
    \E n \in LiveSizes : \E file \in {"ok", "missing"} :
        \E cf \in {{}, {Cardinality(Batches(CodesOf(FetchConfig(n))))}} :
            /\ file = "missing" => cf = {}
            /\ n > 1 => file = "ok" /\ cf # {}
            /\ MainSetup(file, FetchConfig(n), TRUE, "ok", "ok",
                         IF cf = {} THEN {} ELSE {n},
                         {p \in ProfilesOver({DefaultShape}) :
                             n > 1 => p.strict = "fail" /\ p.full = "ok"},
                         cf)

\* the main thread keeps running, every fetch returns or raises, and the
\* pool gives every queued task a worker that is idle
SpecLive ==
    /\ InitLive
    /\ [][NextMain]_vars
    /\ WF_vars(MainThread)
    /\ \A b \in LiveBatches : WF_vars(TaskRun(b))

\* the partitioner alone: lists of n distinct codes s, 2s, .., ns given in
\* descending order and followed by the d lowest of them once more
InputList(n, d, s) ==
    [k \in 1..(n + d) |-> IF k <= n THEN s * (n + 1 - k) ELSE s * (k - n)]

Strides == {1, 7}

InitPart ==
    \E n \in 0..PartN : \E d \in 0..n : \E s \in Strides :
        Setup(InputList(n, d, s), {}, Profiles, {}, {})

NextPart == PartitionStep

SpecPart == InitPart /\ [][NextPart]_vars

\* ---------------------------------------------- what the remote implies
Codes == Range(series_codes)

ChunkSet(b) == Range(chunks[b])

\* the columns a task has put in its chunk_results
Contribution(b) == Flatten(task[b].chunk_results)

\* the individual resolution of c gets a series: the strict fetch answers,
\* or the full history does and holds something on or after the start date
IndivSucceeds(c) ==
    \/ strictResp[c] = "ok"
    \/ fullResp[c] = "ok" /\ \E t \in data[c] : t >= START_DATE

IndivColumn(c) == Column(c, Window(RemoteSeries(c), START_DATE))

\* the strict fetch of c was issued and the resolution of c is over
Resolved(b, c) ==
    /\ c \in ChunkSet(b)
    /\ nStrict[c] >= 1
    /\ ~(task[b].st \in {"strict", "full"} /\ chunks[b][task[b].i] = c)

Labels(cols) == {cols[k].label : k \in DOMAIN cols}

HasColumn(cols, c) == Digits(c) \in Labels(cols)

\* C1: a batch whose combined fetch failed starts one strict fetch for each
\* of its codes, exactly once, however the other codes end, and contributes
\* exactly the series of the codes whose individual resolution succeeded.
C1_FallbackResolvesEach ==
    \A b \in DOMAIN task : b \in combFail =>
        /\ \A c \in ChunkSet(b) : nStrict[c] <= 1
        /\ task[b].st = "returned" =>
             /\ \A c \in ChunkSet(b) : nStrict[c] = 1
             /\ Range(Contribution(b)) =
                  {IndivColumn(c) : c \in {d \in ChunkSet(b) : IndivSucceeds(d)}}
             /\ Len(Contribution(b)) =
                  Cardinality({d \in ChunkSet(b) : IndivSucceeds(d)})

\* a fallback that went on after a permanent failure of an earlier code
C1_Witness ==
    \E b \in DOMAIN task :
        /\ b \in combFail /\ task[b].st = "returned"
        /\ \E c1, c2 \in ChunkSet(b) :
             /\ c1 < c2
             /\ logPerm[c1] = 1
             /\ HasColumn(Contribution(b), c2)

\* C2: a batch whose combined fetch succeeded contributes the combined
\* result and nothing else, and no strict or full-history fetch is ever
\* issued for any of its codes.
C2_CombinedSkipsResolver ==
    \A b \in DOMAIN task : b \notin combFail =>
        /\ \A c \in ChunkSet(b) : nStrict[c] = 0 /\ nFull[c] = 0
        /\ nComb[b] <= 1
        /\ task[b].st \notin {"strict", "full", "raised"}
        /\ task[b].st = "returned" =>
             task[b].chunk_results = <<CombinedFrame(chunks[b])>>

C2_Witness ==
    /\ pc = "reindexed"
    /\ \E b \in DOMAIN task :
         /\ b \notin combFail
         /\ Len(chunks[b]) >= 2
         /\ task[b].chunk_results = <<CombinedFrame(chunks[b])>>
    /\ \E b \in DOMAIN task : b \in combFail

\* C3: no answer of the strict and full-history fetches leaves the task as
\* an error: the task never ends raised, and every code whose resolution is
\* over has exactly one of the outcomes succeeded (it has a column),
\* no_data (no column, no failure line) and failed (no column, one failure
\* line).
C3_ResolutionNeverThrows ==
    \A b \in DOMAIN task :
        /\ task[b].st # "raised"
        /\ LET has == Labels(Contribution(b))
           IN  \A c \in ChunkSet(b) : Resolved(b, c) =>
                 /\ outcome[c] \in {"succeeded", "no_data", "failed"}
                 /\ (outcome[c] = "succeeded") <=> (Digits(c) \in has)
                 /\ (outcome[c] = "failed") <=> (logPerm[c] = 1)
                 /\ outcome[c] = "no_data" => logPerm[c] = 0
        /\ task[b].st = "returned" /\ b \in combFail =>
             \A c \in ChunkSet(b) : Resolved(b, c)

\* a finished run in which all three outcomes occurred
C3_Witness ==
    /\ pc = "reindexed"
    /\ \A b \in DOMAIN task : task[b].st = "returned"
    /\ \E c1, c2, c3 \in Codes :
         /\ outcome[c1] = "succeeded"
         /\ outcome[c2] = "no_data"
         /\ outcome[c3] = "failed"

\* strict fetch failed, full history answered without any observation on
\* or after the start date
NoDataCase(c) ==
    /\ strictResp[c] = "fail"
    /\ fullResp[c] = "ok"
    /\ \A t \in data[c] : t < START_DATE

\* C4: whenever the strict fetch of a code fails and its full history
\* answers with nothing on or after the start date (also with nothing at
\* all), the code ends no_data, one "none within period" line is printed
\* for it, no failure line, and it has no column.
C4_NoDataRecorded ==
    \A b \in DOMAIN task : \A c \in ChunkSet(b) :
        Resolved(b, c) /\ NoDataCase(c) =>
            /\ outcome[c] = "no_data"
            /\ logNoData[c] = 1
            /\ logPerm[c] = 0
            /\ ~HasColumn(Contribution(b), c)

\* C5: a code resolved individually ends permanently failed exactly when
\* its strict and its full-history fetch both raise; it then has no column
\* in the task's results nor in the consolidated table, and exactly one
\* failure line is printed for it (none for any other code).
C5_PermanentFailureIff ==
    /\ \A c \in Codes : logPerm[c] <= 1
    /\ \A b \in DOMAIN task : \A c \in ChunkSet(b) : Resolved(b, c) =>
         /\ (outcome[c] = "failed") <=> (strictResp[c] = "fail" /\ fullResp[c] = "fail")
         /\ (logPerm[c] = 1) <=> (strictResp[c] = "fail" /\ fullResp[c] = "fail")
         /\ outcome[c] = "failed" =>
              /\ ~HasColumn(Contribution(b), c)
              /\ ~HasColumn(Flatten(results), c)
              /\ c \notin Labels(df_final.cols)

\* a finished run with a permanently failed code, another code of its batch
\* whose full history was empty, and columns in the table
C5_Witness ==
    /\ pc = "reindexed"
    /\ Len(df_final.cols) >= 1
    /\ \E b \in DOMAIN task : \E c, d \in ChunkSet(b) :
         /\ outcome[c] = "failed" /\ logPerm[c] = 1
         /\ Resolved(b, d) /\ NoDataCase(d) /\ data[d] = {}

\* C6: at most MAX_WORKERS batch tasks execute at any time, so at most
\* MAX_WORKERS fetches are in flight, whatever the number of batches.
C6_PoolBounded == Cardinality(Running) <= MAX_WORKERS

\* the pool is full and a submitted task waits for a worker
C6_Witness ==
    /\ Cardinality(Running) = MAX_WORKERS
    /\ \E b \in DOMAIN task : task[b].st = "queued"

\* the results in the order of submission, from the remote's answers
ExpectedContribution(b) ==
    IF b \notin combFail THEN <<CombinedFrame(chunks[b])>>
    ELSE IF b \in logBroken THEN <<>>
    ELSE LET ok == SortedSeq({c \in ChunkSet(b) : IndivSucceeds(c)})
         IN  [k \in DOMAIN ok |-> <<IndivColumn(ok[k])>>]

ExpectedResults == Flatten([b \in DOMAIN chunks |-> ExpectedContribution(b)])

\* a table as a set of columns: which codes have one, with which rows
Keyed(df) == {<<df.cols[k].label, df.index, df.cols[k].vals>> : k \in DOMAIN df.cols}

\* C7: the consolidated table, taken as a set of columns keyed by code, is
\* the one the remote's answers determine, whatever the order in which the
\* tasks completed and were collected; no code has two columns.
C7_OrderIndependent ==
    pc \in {"consolidated", "reindexed"} =>
        /\ Keyed(df_final) =
             Keyed(IF pc = "consolidated" THEN Consolidated(ExpectedResults)
                   ELSE ReindexedGlobal(Consolidated(ExpectedResults)))
        /\ Cardinality(Keyed(df_final)) = Len(df_final.cols)

\* the second batch was collected before the first, both with columns
C7_Witness ==
    /\ pc = "consolidated"
    /\ Len(chunks) = 2
    /\ Len(task[1].chunk_results) >= 1
    /\ Len(task[2].chunk_results) >= 1
    /\ df_final.cols[1].label = chunks[2][1]

Raised == {b \in DOMAIN task : task[b].st = "raised"}

\* C8: a task that ended with an error is recorded with one critical line
\* and contributes nothing; the collection goes on, so that at
\* consolidation every task has finished and was collected, and the results
\* are those of all the tasks that returned.
C8_TaskErrorContained ==
    /\ logCritical = Cardinality(Raised \cap collected)
    /\ pc \in {"start", "partitioned", "collect", "consolidated", "reindexed"}
    /\ \A b \in Raised : task[b].chunk_results = <<>>
    /\ pc \in {"consolidated", "reindexed"} =>
         /\ collected = DOMAIN chunks
         /\ \A b \in DOMAIN task : task[b].st \in {"returned", "raised"}
         /\ Range(results) = Range(ExpectedResults)
         /\ Len(results) = Len(ExpectedResults)

\* one task raised, another returned columns, and the run consolidated them
C8_Witness ==
    /\ pc = "consolidated"
    /\ Raised # {}
    /\ logCritical >= 1
    /\ \E b \in DOMAIN task : task[b].st = "returned" /\ b \in combFail
    /\ Len(df_final.cols) >= 1

Ascending(s) == \A i, j \in DOMAIN s : i < j => s[i] < s[j]

\* C9: the batches are the consecutive slices of BATCH_SIZE codes of the
\* input sorted ascending without duplicates: none is empty, only the last
\* may be shorter, concatenated they are that sorted list, and an empty
\* input gives no batch.
C9_PartitionExact ==
    pc = "partitioned" =>
        /\ \A b \in DOMAIN chunks : Len(chunks[b]) >= 1
        /\ \A b \in DOMAIN chunks : b < Len(chunks) => Len(chunks[b]) = BATCH_SIZE
        /\ \A b \in DOMAIN chunks : Len(chunks[b]) <= BATCH_SIZE
        /\ Ascending(Flatten(chunks))
        /\ Range(Flatten(chunks)) = Range(series_codes)
        /\ series_codes = <<>> => chunks = <<>>

\* three batches, the last one short, from a list with duplicates
C9_Witness ==
    /\ pc = "partitioned"
    /\ Len(chunks) = 3
    /\ Len(chunks[3]) < BATCH_SIZE
    /\ Len(series_codes) > Cardinality(Range(series_codes))

\* C10: after consolidation and reindexing every column of the table holds
\* exactly the TimePoints of the axis, in axis order: the remote's value
\* where the series has one, a missing value elsewhere.
C10_ColumnsOnAxis ==
    pc = "reindexed" =>
        /\ Len(df_final.cols) >= 1 => df_final.index = master_index
        /\ \A k \in DOMAIN df_final.cols :
             LET col == df_final.cols[k]
             IN  /\ Len(col.vals) = Len(master_index)
                 /\ \A j \in DOMAIN col.vals :
                      col.vals[j] = IF master_index[j] \in data[col.label]
                                    THEN Val(col.label, master_index[j]) ELSE NaN

\* C11: a code for which the remote source returned no observation (on or
\* after the start date) has no column in the consolidated table.
C11_EmptyResultAbsent ==
    pc \in {"consolidated", "reindexed"} =>
        \A k \in DOMAIN df_final.cols :
            \E t \in data[df_final.cols[k].label] : t >= START_DATE

\* C17: the full-history fetch of a code is issued only after the strict
\* fetch of that code was issued and failed, never after it succeeded, and
\* a code gets at most one strict and one full-history fetch.
C17_TiersInOrder ==
    \A b \in DOMAIN task : \A c \in ChunkSet(b) :
        /\ nStrict[c] <= 1
        /\ nFull[c] <= 1
        /\ nFull[c] = 1 =>
             /\ nStrict[c] = 1
             /\ strictResp[c] = "fail"
             /\ ~(task[b].st = "strict" /\ chunks[b][task[b].i] = c)
        /\ task[b].st = "full" /\ chunks[b][task[b].i] = c => nFull[c] = 1

\* a finished run where one code stopped at its strict fetch and another
\* went on to its full history
C17_Witness ==
    /\ pc = "reindexed"
    /\ \E c, d \in Codes :
         /\ nStrict[c] = 1 /\ nFull[c] = 0 /\ strictResp[c] = "ok"
         /\ nStrict[d] = 1 /\ nFull[d] = 1

\* the places of a code in the batches
Places(c) == {<<b, k>> \in (DOMAIN chunks) \X (1..BATCH_SIZE) :
                 k <= Len(chunks[b]) /\ chunks[b][k] = c}

\* the columns of code c among the results of all tasks
ColumnsOf(c) ==
    {<<b, k>> \in (DOMAIN task) \X (1..BATCH_SIZE) :
        k <= Len(Contribution(b)) /\ Contribution(b)[k].label = Digits(c)}

\* C18: every code is in exactly one batch, every batch has one task and
\* one combined fetch at most, a code gets its column either from the
\* combined fetch of its batch or from its own resolution, never from both,
\* and the consolidated table has at most one column per code.
C18_OneSourcePerCode ==
    /\ pc # "start" => \A c \in Codes : Cardinality(Places(c)) = 1
    /\ pc \notin {"start", "partitioned"} =>
         /\ DOMAIN task = DOMAIN chunks
         /\ \A b \in DOMAIN task : nComb[b] <= 1
         /\ \A b \in DOMAIN task : \A c \in ChunkSet(b) :
              /\ Cardinality(ColumnsOf(c)) <= 1
              /\ b \notin combFail => nStrict[c] = 0
              /\ b \in combFail /\ task[b].st # "raised" =>
                   Len(task[b].chunk_results) <= Len(chunks[b])
    /\ pc \in {"consolidated", "reindexed"} =>
         \A j, k \in DOMAIN df_final.cols :
             j # k => df_final.cols[j].label # df_final.cols[k].label

\* a finished run of two batches, one answered as a whole and one resolved
\* code by code, with a column for every code
C18_Witness ==
    /\ pc = "reindexed"
    /\ Len(chunks) = 2
    /\ \E a, b \in DOMAIN task : a \in combFail /\ b \notin combFail
    /\ Len(df_final.cols) = Cardinality(Codes)

\* C19: the accumulator results is written only by the collecting thread,
\* a step of a task changes only that task's own record, and the merge of
\* the results starts only when every task has finished.
C19_NoSharedMutableState ==
    [][/\ results' # results =>
            /\ pc = "collect"
            /\ task' = task
            /\ \E b \in DOMAIN task : b \notin collected /\ collected' = collected \cup {b}
       /\ \A b \in DOMAIN task :
            b \in DOMAIN task' /\ task'[b] # task[b] =>
                /\ \A a \in DOMAIN task : a # b => task'[a] = task[a]
                /\ results' = results
                /\ df_final' = df_final
       /\ pc = "collect" /\ pc' = "consolidated" =>
            \A b \in DOMAIN task : task[b].st \in {"returned", "raised"}]_vars

\* two tasks ran and their results were merged
C19_Witness ==
    /\ pc = "consolidated"
    /\ Len(chunks) = 2
    /\ Len(results) >= 2
    /\ \A b \in DOMAIN task : task[b].chunk_results # <<>>

\* ------------------------------------------------------------ main: claims
\* the critical errors before the download
SetupFatal ==
    {"input file not found", "error reading input file", "no valid series codes"}

\* the critical errors of the export
WriteFatal == {"permission denied", "error saving"}

\* a row that yields a valid identifier
ValidRow(r) == r.Codigo.kind = "num" /\ r.Codigo.v > 0 /\ r.Aba # NA

HasValidIdentifier(rows) == \E k \in DOMAIN rows : ValidRow(rows[k])

\* the sheets of the configuration that get a table
ProducibleSheets(rows) ==
    {Strip(rows[k].Aba) : k \in {j \in DOMAIN rows : ValidRow(rows[j])}} \
    {Strip(rows[k].Aba) :
        k \in {j \in DOMAIN rows :
                 ValidRow(rows[j]) /\ ~ValidColumn(Upper(Strip(AsStr(rows[j].Coluna))))}}

\* C13: main exits with code 0 or 1; the code is 0 exactly when the
\* configuration was read, held a valid identifier, at least one sheet was
\* produced and every sheet was written; it is 1 when the file is missing or
\* unreadable, when no identifier is valid, when no sheet is produced and
\* when the write fails.
C13_ExitCode ==
    /\ exit_code \in {0, 1}
    /\ pc = "exited" =>
         /\ exit_code = 0 <=>
              /\ inputFile = "ok"
              /\ HasValidIdentifier(inputRows)
              /\ ProducibleSheets(inputRows) # {}
              /\ writeResp = "ok"
         /\ exit_code = 0 <=>
              /\ fatal = "none"
              /\ output_dfs # <<>>
              /\ written = SheetNames(output_dfs, Len(output_dfs))
         /\ inputFile = "missing" => exit_code = 1 /\ fatal = "input file not found"
         /\ inputFile = "unreadable" => exit_code = 1 /\ fatal = "error reading input file"
         /\ inputFile = "ok" /\ ~HasValidIdentifier(inputRows) =>
              exit_code = 1 /\ fatal = "no valid series codes"
         /\ fatal = "no data generated" => exit_code = 1 /\ output_dfs = <<>>
         /\ fatal \in WriteFatal => exit_code = 1 /\ writeResp # "ok"

\* a run that wrote its sheet and exited with 0, over an older output file
C13_Witness ==
    /\ pc = "exited"
    /\ exit_code = 0
    /\ Len(written) >= 1
    /\ backup

\* no fetch of any tier was issued
NoFetch ==
    /\ \A b \in DOMAIN nComb : nComb[b] = 0
    /\ \A c \in DOMAIN nStrict : nStrict[c] = 0 /\ nFull[c] = 0
    /\ \A b \in DOMAIN task : task[b].st = "queued"

\* C14: no fetch is issued before the configuration was read and found to
\* hold a valid identifier, and none at all in a run that ends with a
\* missing or unreadable configuration or with no valid identifier.
C14_NoFetchBeforeSetup ==
    /\ pc \in {"main", "read"} => NoFetch
    /\ fatal \in SetupFatal => NoFetch
    /\ ~NoFetch =>
         /\ inputFile = "ok"
         /\ HasValidIdentifier(inputRows)
         /\ series_codes # <<>>
         /\ \A c \in Range(series_codes) :
              \E k \in DOMAIN inputRows : ValidRow(inputRows[k]) /\ inputRows[k].Codigo.v = c

\* a run that ended on a missing configuration file whose rows, had they
\* been readable, named a valid identifier
C14_Witness ==
    /\ pc = "exited"
    /\ fatal = "input file not found"
    /\ HasValidIdentifier(inputRows)
    /\ NoFetch

\* main is past the distribution
Distributed == pc \in {"distributed", "finally", "exited"}

\* the statement of C15 as claimed: main is never aborted by a fetch and
\* its exit code is non-zero only after a setup-fatal or write-fatal error
C15_OnlySetupOrWriteFatal ==
    /\ pc # "aborted"
    /\ exit_code # 0 => fatal \in SetupFatal \cup WriteFatal

\* C15 (amended): whatever fetches fail, main goes on to consolidation,
\* distribution and the export; its exit code is non-zero only after a
\* setup-fatal error, a write-fatal error, or when no sheet could be
\* produced because every sheet names an invalid column, none of which
\* depends on the fetches; with a producible sheet and a working export it
\* is 0 even when series failed or held no data.
C15_FetchFailuresAbsorbed ==
    /\ pc # "aborted"
    /\ exit_code # 0 => fatal \in SetupFatal \cup WriteFatal \cup {"no data generated"}
    /\ fatal = "no data generated" => ProducibleSheets(inputRows) = {}
    /\ Distributed /\ fatal \notin SetupFatal =>
         /\ DOMAIN task = DOMAIN chunks
         /\ collected = DOMAIN task
         /\ df_final = ReindexedGlobal(Consolidated(results))
    /\ pc = "exited" /\ fatal \notin SetupFatal /\ ProducibleSheets(inputRows) # {}
         /\ writeResp = "ok" =>
         exit_code = 0 /\ written # <<>>

\* a run that exited with 0 although a batch failed as a whole and one of
\* its series failed permanently while another was kept
C15_Witness ==
    /\ pc = "exited"
    /\ exit_code = 0
    /\ combFail # {}
    /\ \E c, d \in Codes :
         /\ logPerm[c] = 1 /\ ~InColumns(df_final, c)
         /\ InColumns(df_final, d)

\* the rows of a sheet that feed the column label from the table
Feeders(rows, label) ==
    {j \in DOMAIN rows :
        rows[j].Coluna = label /\ InColumns(df_final, rows[j].Codigo_Clean)}

AllMissing(vals) == \A j \in DOMAIN vals : vals[j] = NaN

ColIndices(rows) == {column_index_from_string(rows[k].Coluna) : k \in DOMAIN rows}

\* a column of a sheet holds the series of the last row that feeds it, and
\* nothing when no row does
FilledFromTable(rows, col) ==
    LET f == Feeders(rows, col.label)
    IN  IF f = {} THEN AllMissing(col.vals)
        ELSE LET last == CHOOSE j \in f : \A i \in f : i <= j
             IN  col.vals = Aligned(df_final, rows[last].Codigo_Clean)

\* the statement of C12 as claimed: the columns of a sheet are the letters
\* from its lowest to its highest configured column
C12_RangeFromLowest ==
    Distributed =>
        \A k \in DOMAIN output_dfs :
            LET rows == df_config(df_input, output_dfs[k].sheet)
                cols == output_dfs[k].df.cols
                lo   == CHOOSE m \in ColIndices(rows) : \A i \in ColIndices(rows) : m <= i
                hi   == CHOOSE m \in ColIndices(rows) : \A i \in ColIndices(rows) : i <= m
            IN  /\ Len(cols) = hi - lo + 1
                /\ \A i \in DOMAIN cols : cols[i].label = get_column_letter(lo + i - 1)
                /\ \A i \in DOMAIN cols : FilledFromTable(rows, cols[i])

\* C12 (amended): a sheet gets a table exactly when all its configured
\* columns are valid names; the columns of the table are the letters from
\* 'B' to the highest configured column, whatever the lowest one is,
\* followed by a column 'A' when 'A' is configured for a code that has a
\* column in the consolidated table; a column holds the series of the last
\* row that names it with a code of the table and is empty otherwise.
C12_RangeFromB ==
    Distributed /\ fatal \notin SetupFatal =>
        /\ {output_dfs[k].sheet : k \in DOMAIN output_dfs} = ProducibleSheets(inputRows)
        /\ \A k \in DOMAIN output_dfs :
            LET rows == df_config(df_input, output_dfs[k].sheet)
                cols == output_dfs[k].df.cols
                hi   == CHOOSE m \in ColIndices(rows) : \A i \in ColIndices(rows) : i <= m
                a    == IF Feeders(rows, ColA) # {} THEN 1 ELSE 0
            IN  /\ Len(cols) = hi - 1 + a
                /\ \A i \in 1..(hi - 1) : cols[i].label = get_column_letter(i + 1)
                /\ a = 1 => cols[hi].label = ColA
                /\ \A i \in DOMAIN cols : FilledFromTable(rows, cols[i])

\* a written sheet configured on column D alone: its table spans B, C, D,
\* with D filled and B, C empty
C12_Witness ==
    /\ pc = "exited"
    /\ exit_code = 0
    /\ \E k \in DOMAIN output_dfs :
         LET rows == df_config(df_input, output_dfs[k].sheet)
             cols == output_dfs[k].df.cols
         IN  /\ ColIndices(rows) = {column_index_from_string(ColD)}
             /\ Len(cols) = 3
             /\ cols[1].label = ColB /\ AllMissing(cols[1].vals)
             /\ AllMissing(cols[2].vals)
             /\ cols[3].label = ColD /\ ~AllMissing(cols[3].vals)

\* every task has finished and its future was yielded
AllTasksDone ==
    /\ DOMAIN task = DOMAIN chunks
    /\ \A b \in DOMAIN task : task[b].st \in {"returned", "raised"}
    /\ collected = DOMAIN task

\* the frames of the tasks collected so far, each counted once
CollectedFrames ==
    Flatten([b \in DOMAIN chunks |->
                IF b \in collected /\ task[b].st = "returned"
                THEN task[b].chunk_results ELSE <<>>])

\* C20: under fair scheduling every run ends: main eventually exits with
\* code 0 or 1, and unless the setup was fatal every submitted task has by
\* then finished and been collected, the accumulator holding the frames of
\* each collected task once, with more batches than workers too and
\* whatever fetches fail.
C20_Terminates ==
    <>(/\ pc = "exited"
       /\ exit_code \in {0, 1}
       /\ fatal \notin SetupFatal =>
              AllTasksDone /\ Len(results) = Len(CollectedFrames))

C20_Witness ==
    /\ pc = "exited"
    /\ Len(chunks) > MAX_WORKERS
    /\ combFail # {}
    /\ AllTasksDone
    /\ \E c \in Codes : nFull[c] = 1

====
